---------------------------- MODULE Spec2Model ----------------------------
(***************************************************************************)
(* Model of src/src/App.tsx: the table-recovery parser inside fetchData    *)
(* (the row loop that splits one stacked CSV grid into four tables) and    *)
(* the two derived queries dashboardRows (the administrative view) and     *)
(* mobileCards (the eligible cards of a user segment).                     *)
(*                                                                         *)
(* Text.  A JavaScript string is a sequence of atoms.  An atom is one      *)
(* character (" ", a letter, a digit, a sign) or a word that the program   *)
(* only ever compares as a whole ("Partner_ID", "C1").  The empty string   *)
(* is << >>.  trim, toUpperCase and parseInt work on the atoms.            *)
(* undefined and null are the one-atom sequences Undefined and Null, whose *)
(* atoms occur in no text.                                                 *)
(***************************************************************************)
EXTENDS Integers, Sequences, FiniteSets, TLC

VARIABLES
    pc,                  \* where fetchData is: "fetch", "loop", "done", "failed"
    rows,                \* parsed.data: the grid, a sequence of rows of cells
    rowIdx,              \* position of the for-of loop in rows
    currentTable,        \* let currentTable
    currentHeaders,      \* let currentHeaders
    partnerMaster,       \* the four local arrays of fetchData
    cardUIConfig,
    productDetailConfig,
    displayRules,
    data,                \* useState: the published snapshot, or NullData
    loading,             \* useState
    error,               \* useState: Null or the message
    userSegment,         \* useState
    selectedConfigId,    \* useState
    mobileScreen,        \* useState
    activeCardId,        \* useState
    dashboardRows,       \* useMemo value of the last completed render
    mobileCards,         \* useMemo value of the last completed render
    crashed,             \* TRUE once a render has thrown
    sortChoice,          \* Array.prototype.sort of the engine: the orders it
                         \* has given where the comparator is inconsistent
    fetches              \* the calls of fetchData, in the order they started,
                         \* when the effect runs more than once (SpecRefetch)

parserVars == <<pc, rows, rowIdx, currentTable, currentHeaders,
                partnerMaster, cardUIConfig, productDetailConfig, displayRules>>
loadVars == <<data, loading, error>>
viewVars == <<selectedConfigId, mobileScreen, activeCardId>>
memoVars == <<dashboardRows, mobileCards, crashed, sortChoice>>
effectVars == <<fetches>>
vars == <<parserVars, loadVars, userSegment, viewVars, memoVars, effectVars>>

---------------------------------------------------------------------------
(* Bounds of the model *)

MaxRows == 4        \* rows of a grid
MaxRules == 3       \* DisplayRule records of a drawn snapshot

---------------------------------------------------------------------------
(* Text *)

W(a) == <<a>>
EmptyStr == << >>
SP == " "
Undefined == <<"#undefined">>
Null == <<"#null">>
NullData == [isNull |-> TRUE]
NullTable == "null"

IsSpace(a) == a = SP

RECURSIVE TrimStart(_)
TrimStart(s) ==
    IF s # << >> /\ IsSpace(Head(s)) THEN TrimStart(Tail(s)) ELSE s

RECURSIVE TrimEnd(_)
TrimEnd(s) ==
    IF s # << >> /\ IsSpace(s[Len(s)])
    THEN TrimEnd(SubSeq(s, 1, Len(s) - 1))
    ELSE s

\* String.prototype.trim
Trim(s) == TrimEnd(TrimStart(s))

\* !x for a string or undefined
Falsy(x) == x = Undefined \/ x = Null \/ x = EmptyStr

\* x || d
OrElse(x, d) == IF Falsy(x) THEN d ELSE x

UpperAtom(a) ==
    CASE a = "a" -> "A" [] a = "b" -> "B" [] a = "c" -> "C" [] a = "d" -> "D"
      [] a = "e" -> "E" [] a = "f" -> "F" [] a = "g" -> "G" [] a = "h" -> "H"
      [] a = "i" -> "I" [] a = "j" -> "J" [] a = "k" -> "K" [] a = "l" -> "L"
      [] a = "m" -> "M" [] a = "n" -> "N" [] a = "o" -> "O" [] a = "p" -> "P"
      [] a = "q" -> "Q" [] a = "r" -> "R" [] a = "s" -> "S" [] a = "t" -> "T"
      [] a = "u" -> "U" [] a = "v" -> "V" [] a = "w" -> "W" [] a = "x" -> "X"
      [] a = "y" -> "Y" [] a = "z" -> "Z" [] OTHER -> a

\* String.prototype.toUpperCase
ToUpperCase(s) == [k \in 1..Len(s) |-> UpperAtom(s[k])]

\* Column names and literals of the source
PARTNER_ID == W("Partner_ID")
PARTNER_NAME == W("Partner_Name")
STATUS == W("Status")
CONFIG_ID == W("Config_ID")
CARD_TITLE == W("Card_Title")
HERO_BANNER_URL == W("Hero_Banner_URL")
RULE_ID == W("Rule_ID")
USER_SEGMENT == W("User_Segment")
PRIORITY == W("Priority")
PROTO == W("__proto__")
ACTIVE == <<"A", "C", "T", "I", "V", "E">>
INACTIVE == <<"I", "N", "A", "C", "T", "I", "V", "E">>
UNKNOWN == W("Unknown")
ZERO == <<"0">>
ALL == W("All")
NEW_USER == W("New User")
EXISTING_USER == W("Existing User")
FETCH_FAILED_MSG == W("Failed to fetch CSV data")
NETWORK_MSG == W("Failed to fetch")

---------------------------------------------------------------------------
(* Records: a JavaScript object whose keys are header texts *)

EmptyObj == << >>

\* obj.key, undefined when the object has no such field
Get(obj, key) == IF key \in DOMAIN obj THEN obj[key] ELSE Undefined

\* partner?.key
OptGet(obj, found, key) == IF found THEN Get(obj, key) ELSE Undefined

\* obj[key] = value on an object literal: the key "__proto__" is the
\* prototype accessor, and assigning it a string creates no field
SetField(obj, key, value) ==
    IF key = PROTO
    THEN obj
    ELSE [k \in (DOMAIN obj) \cup {key} |-> IF k = key THEN value ELSE obj[k]]

---------------------------------------------------------------------------
(* The row loop of fetchData *)

\* IsBlankRow gone wrong: only a row with no cells counts as blank
IsBlankRow_LengthOnly(row) == Len(row) = 0

\* row.length === 0 || row.every(cell => !cell || !cell.trim())
IsBlankRow(row) ==
    \/ Len(row) = 0
    \/ \A k \in 1..Len(row) : Falsy(row[k]) \/ Falsy(Trim(row[k]))

\* FirstCell gone wrong: the first cell as it stands
FirstCell_NoTrim(row) == IF Len(row) >= 1 THEN row[1] ELSE Undefined

\* row[0]?.trim()
FirstCell(row) == IF Len(row) >= 1 THEN Trim(row[1]) ELSE Undefined

\* row.includes(name): strict equality with a cell as it stands
Includes(row, name) == \E k \in 1..Len(row) : row[k] = name

\* DetectHeader gone wrong: Hero_Banner_URL tested before Card_Title
DetectHeader_HeroFirst(row) ==
    IF FirstCell(row) = PARTNER_ID /\ Includes(row, PARTNER_NAME)
    THEN "Partner_Master"
    ELSE IF FirstCell(row) = CONFIG_ID /\ Includes(row, HERO_BANNER_URL)
    THEN "Product_Detail_Config"
    ELSE IF FirstCell(row) = CONFIG_ID /\ Includes(row, CARD_TITLE)
    THEN "Card_UI_Config"
    ELSE IF FirstCell(row) = RULE_ID /\ Includes(row, USER_SEGMENT)
    THEN "Display_Rules"
    ELSE NullTable

\* The if / else-if chain that detects a header row; NullTable when none
\* of the four tests passes.
DetectHeader(row) ==
    IF FirstCell(row) = PARTNER_ID /\ Includes(row, PARTNER_NAME)
    THEN "Partner_Master"
    ELSE IF FirstCell(row) = CONFIG_ID /\ Includes(row, CARD_TITLE)
    THEN "Card_UI_Config"
    ELSE IF FirstCell(row) = CONFIG_ID /\ Includes(row, HERO_BANNER_URL)
    THEN "Product_Detail_Config"
    ELSE IF FirstCell(row) = RULE_ID /\ Includes(row, USER_SEGMENT)
    THEN "Display_Rules"
    ELSE NullTable

\* row.map(h => h.trim())
TrimAll(row) == [k \in 1..Len(row) |-> Trim(row[k])]

\* CellAt gone wrong: the cell is taken as it stands
CellAt_NoTrim(row, index) ==
    IF index <= Len(row) /\ ~Falsy(row[index]) THEN row[index] ELSE EmptyStr

\* row[index] ? row[index].trim() : ''
CellAt(row, index) ==
    IF index <= Len(row) /\ ~Falsy(row[index]) THEN Trim(row[index]) ELSE EmptyStr

\* currentHeaders.forEach((header, index) => { if (header) obj[header] = ... })
\* from position index on, with obj as built so far
RECURSIVE ForEachHeader(_, _, _, _)
ForEachHeader(headers, row, index, obj) ==
    IF index > Len(headers)
    THEN obj
    ELSE ForEachHeader(headers, row, index + 1,
            IF ~Falsy(headers[index])
            THEN SetField(obj, headers[index], CellAt(row, index))
            ELSE obj)

BuildRecord(headers, row) == ForEachHeader(headers, row, 1, EmptyObj)

---------------------------------------------------------------------------
(* Numbers: a JavaScript number is [nan, v]; v is meaningful when ~nan *)

NaN == [nan |-> TRUE, v |-> 0]
Num(n) == [nan |-> FALSE, v |-> n]

IsDigit(a) == a \in {"0", "1", "2", "3", "4", "5", "6", "7", "8", "9"}

DigitVal(a) ==
    CASE a = "0" -> 0 [] a = "1" -> 1 [] a = "2" -> 2 [] a = "3" -> 3
      [] a = "4" -> 4 [] a = "5" -> 5 [] a = "6" -> 6 [] a = "7" -> 7
      [] a = "8" -> 8 [] a = "9" -> 9 [] OTHER -> 0

\* the value of the longest prefix of digits of s, given the value acc of
\* the digits read so far
RECURSIVE ParseDigits(_, _)
ParseDigits(s, acc) ==
    IF s # << >> /\ IsDigit(Head(s))
    THEN ParseDigits(Tail(s), 10 * acc + DigitVal(Head(s)))
    ELSE acc

\* parseInt(s, 10): leading white space, an optional sign, then digits;
\* NaN when no digit follows
ParseInt(s) ==
    LET t == TrimStart(s)
        signed == t # << >> /\ Head(t) \in {"-", "+"}
        body == IF signed THEN Tail(t) ELSE t
    IN  IF body = << >> \/ ~IsDigit(Head(body))
        THEN NaN
        ELSE IF signed /\ Head(t) = "-"
             THEN Num(0 - ParseDigits(body, 0))
             ELSE Num(ParseDigits(body, 0))

\* a - b on numbers
Minus(a, b) == IF a.nan \/ b.nan THEN NaN ELSE Num(a.v - b.v)

---------------------------------------------------------------------------
(* Array helpers *)

\* FirstIndex gone wrong: the last of the positions that pass the test
FirstIndex_Last(positions) ==
    IF positions = {}
    THEN 0
    ELSE CHOOSE k \in positions : \A j \in positions : k >= j

\* Array.prototype.find as a position: the first of the positions that
\* pass the test, 0 when none does
FirstIndex(positions) ==
    IF positions = {}
    THEN 0
    ELSE CHOOSE k \in positions : \A j \in positions : k <= j

---------------------------------------------------------------------------
(* dashboardRows: the administrative view *)

\* FindPartner gone wrong: the first partner, whatever its Partner_ID
FindPartner_First(d, config) == IF Len(d.partnerMaster) > 0 THEN 1 ELSE 0

\* data.partnerMaster.find(p => p.Partner_ID === config.Partner_ID)
FindPartner(d, config) ==
    FirstIndex({k \in 1..Len(d.partnerMaster) :
                  Get(d.partnerMaster[k], PARTNER_ID) = Get(config, PARTNER_ID)})

\* FindRule gone wrong: the first rule, whatever its Config_ID
FindRule_First(d, config) == IF Len(d.displayRules) > 0 THEN 1 ELSE 0

\* data.displayRules.find(r => r.Config_ID === config.Config_ID)
FindRule(d, config) ==
    FirstIndex({k \in 1..Len(d.displayRules) :
                  Get(d.displayRules[k], CONFIG_ID) = Get(config, CONFIG_ID)})

\* a property of an object literal: always an own field
PutField(obj, key, value) ==
    [k \in (DOMAIN obj) \cup {key} |-> IF k = key THEN value ELSE obj[k]]

\* { ...config, Partner_Name: ..., Status: ..., Priority: ..., User_Segment: ... }
DashboardRow(d, config) ==
    LET pi == FindPartner(d, config)
        ri == FindRule(d, config)
        partner == IF pi > 0 THEN d.partnerMaster[pi] ELSE EmptyObj
        rule == IF ri > 0 THEN d.displayRules[ri] ELSE EmptyObj
        r1 == PutField(config, PARTNER_NAME,
                       OrElse(OptGet(partner, pi > 0, PARTNER_NAME), UNKNOWN))
        r2 == PutField(r1, STATUS,
                       OrElse(OptGet(partner, pi > 0, STATUS), INACTIVE))
        r3 == PutField(r2, PRIORITY,
                       OrElse(OptGet(rule, ri > 0, PRIORITY), ZERO))
    IN  PutField(r3, USER_SEGMENT,
                 OrElse(OptGet(rule, ri > 0, USER_SEGMENT), ALL))

\* DashboardRows gone wrong: an inner join, cards without partner left out
DashboardRows_InnerJoin(d) ==
    LET HasPartner(config) == FindPartner(d, config) > 0
        joined == SelectSeq(d.cardUIConfig, HasPartner)
    IN  [k \in 1..Len(joined) |-> DashboardRow(d, joined[k])]

\* data.cardUIConfig.map(config => ...)
DashboardRows(d) ==
    [k \in 1..Len(d.cardUIConfig) |-> DashboardRow(d, d.cardUIConfig[k])]

---------------------------------------------------------------------------
(* mobileCards: the eligible cards of a segment *)

\* p.Status.toUpperCase() on a record without a Status field: TypeError
MobileCardsThrows(d) ==
    \E k \in 1..Len(d.partnerMaster) : Get(d.partnerMaster[k], STATUS) = Undefined

\* IsActivePartner gone wrong: everything but 'INACTIVE' passes
IsActivePartner_NotInactive(p) == ToUpperCase(Get(p, STATUS)) # INACTIVE

\* p.Status.toUpperCase() === 'ACTIVE'
IsActivePartner(p) == ToUpperCase(Get(p, STATUS)) = ACTIVE

\* ActivePartners gone wrong: the Partner_IDs of all records
ActivePartners_All(d) ==
    {Get(d.partnerMaster[k], PARTNER_ID) : k \in 1..Len(d.partnerMaster)}

\* new Set(data.partnerMaster.filter(...).map(p => p.Partner_ID))
ActivePartners(d) ==
    {Get(d.partnerMaster[k], PARTNER_ID) :
        k \in {j \in 1..Len(d.partnerMaster) : IsActivePartner(d.partnerMaster[j])}}

\* activePartners.has(c.Partner_ID)
PassesStatusGate(d, c) == Get(c, PARTNER_ID) \in ActivePartners(d)

\* r.User_Segment === 'All' || r.User_Segment === userSegment
RuleMatches(r, segment) ==
    Get(r, USER_SEGMENT) = ALL \/ Get(r, USER_SEGMENT) = segment

\* the callback of the second filter
PassesSegmentGate(d, c, segment) ==
    LET OfCard(r) == Get(r, CONFIG_ID) = Get(c, CONFIG_ID)
        rules == SelectSeq(d.displayRules, OfCard)
    IN  IF Len(rules) = 0
        THEN TRUE
        ELSE \E k \in 1..Len(rules) : RuleMatches(rules[k], segment)

\* the array handed to sort: both filters applied in turn
FilteredCards(d, segment) ==
    LET Gate1(c) == PassesStatusGate(d, c)
        Gate2(c) == PassesSegmentGate(d, c, segment)
    IN  SelectSeq(SelectSeq(d.cardUIConfig, Gate1), Gate2)

\* parseInt(rule?.Priority || '0', 10) for the first rule of the card
CardPriority(d, c) ==
    LET ri == FindRule(d, c)
        rule == IF ri > 0 THEN d.displayRules[ri] ELSE EmptyObj
    IN  ParseInt(OrElse(OptGet(rule, ri > 0, PRIORITY), ZERO))

\* SortCompare gone wrong: prioA - prioB, low to high
SortCompare_Ascending(prioA, prioB) ==
    LET v == Minus(prioA, prioB) IN IF v.nan THEN 0 ELSE v.v

\* the comparator: prioB - prioA
Comparator(d, a, b) == Minus(CardPriority(d, b), CardPriority(d, a))

\* the priorities the comparator reads, card by card from position k on
RECURSIVE Priorities(_, _, _)
Priorities(d, cards, k) ==
    IF k > Len(cards)
    THEN << >>
    ELSE <<CardPriority(d, cards[k])>> \o Priorities(d, cards, k + 1)

\* what sort makes of the comparator's value for two cards of priorities
\* prioA and prioB: NaN counts as +0
SortCompare(prioA, prioB) ==
    LET v == Minus(prioB, prioA) IN IF v.nan THEN 0 ELSE v.v

\* Whether the comparator is a consistent comparator for the cards
\* (ECMA-262, Array.prototype.sort): the order it induces is a strict weak
\* order.  When it is not, the sort order is implementation-defined.
ConsistentComparator(prios) ==
    \A i, j, k \in 1..Len(prios) :
        /\ SortCompare(prios[i], prios[i]) = 0
        /\ (SortCompare(prios[i], prios[j]) = 0 => SortCompare(prios[j], prios[i]) = 0)
        /\ (SortCompare(prios[i], prios[j]) < 0 <=> SortCompare(prios[j], prios[i]) > 0)
        /\ (SortCompare(prios[i], prios[j]) = 0 /\ SortCompare(prios[j], prios[k]) = 0
                => SortCompare(prios[i], prios[k]) = 0)
        /\ (SortCompare(prios[i], prios[j]) < 0 /\ SortCompare(prios[j], prios[k]) < 0
                => SortCompare(prios[i], prios[k]) < 0)
        /\ (SortCompare(prios[i], prios[j]) > 0 /\ SortCompare(prios[j], prios[k]) > 0
                => SortCompare(prios[i], prios[k]) > 0)

\* position after which x goes in the sorted prefix: right of every
\* element that does not sort after it
RECURSIVE InsertAfter(_, _, _, _)
InsertAfter(prios, sorted, x, j) ==
    IF j = 0 \/ SortCompare(prios[sorted[j]], prios[x]) <= 0
    THEN j
    ELSE InsertAfter(prios, sorted, x, j - 1)

\* the stable sort as a sequence of positions, built by insertion
RECURSIVE StableOrder(_, _, _)
StableOrder(prios, sorted, x) ==
    IF x > Len(prios)
    THEN sorted
    ELSE LET j == InsertAfter(prios, sorted, x, Len(sorted))
         IN  StableOrder(prios,
                 SubSeq(sorted, 1, j) \o <<x>> \o SubSeq(sorted, j + 1, Len(sorted)),
                 x + 1)

AllOrders(n) ==
    {p \in [1..n -> 1..n] : \A i, j \in 1..n : p[i] = p[j] => i = j}

\* cards.sort(comparator) for cards of these priorities: the orders sort
\* may produce, as sequences of positions
SortOrders(prios) ==
    IF ConsistentComparator(prios)
    THEN {StableOrder(prios, << >>, 1)}
    ELSE AllOrders(Len(prios))

Reorder(cards, order) == [k \in 1..Len(cards) |-> cards[order[k]]]

\* The order is implementation-defined, not random: sort is an algorithm
\* that sees the cards through the comparator only, so that an engine gives
\* one order for given priorities.  choice holds <<prios, order>> for the
\* inconsistent inputs the engine has sorted so far.
SortOrdersOfEngine(prios, choice) ==
    IF \E c \in choice : c[1] = prios
    THEN {c[2] : c \in {x \in choice : x[1] = prios}}
    ELSE SortOrders(prios)

\* the engine's choices after it gave order for prios
SortChoiceAfter(prios, order, choice) ==
    IF ConsistentComparator(prios) THEN choice ELSE choice \cup {<<prios, order>>}

---------------------------------------------------------------------------
(* Rendering: the two useMemo values are recomputed when data or           *)
(* userSegment changed.  dashboardRows is computed first; when mobileCards *)
(* throws, the render is abandoned and nothing of it is kept.              *)

\* the values mobileCards may take: the filtered cards in an order of sort
MobileCardsIs(value, d, segment) ==
    LET cards == FilteredCards(d, segment)
    IN  \E order \in SortOrders(Priorities(d, cards, 1)) :
            value = Reorder(cards, order)

\* cards.sort(...) by the engine: the value of mobileCards and the engine's
\* choices after it
SortBy(cards, prios) ==
    \E order \in SortOrdersOfEngine(prios, sortChoice) :
        /\ mobileCards' = Reorder(cards, order)
        /\ sortChoice' = SortChoiceAfter(prios, order, sortChoice)

Render(d, segment) ==
    IF d = NullData
    THEN /\ dashboardRows' = << >>
         /\ mobileCards' = << >>
         /\ crashed' = crashed
         /\ sortChoice' = sortChoice
    ELSE IF MobileCardsThrows(d)
    THEN /\ crashed' = TRUE
         /\ UNCHANGED <<dashboardRows, mobileCards, sortChoice>>
    ELSE /\ crashed' = crashed
         /\ dashboardRows' = DashboardRows(d)
         /\ \E cards \in {FilteredCards(d, segment)} :
                \E prios \in {Priorities(d, cards, 1)} : SortBy(cards, prios)

---------------------------------------------------------------------------
(* Grids the fetch may deliver *)

RowPool ==
    { << >>,                                             \* a row with no cells
      <<EmptyStr, <<SP>>>>,                              \* a blank row
      <<PARTNER_ID, PARTNER_NAME>>,                      \* Partner header, no Status
      <<<<SP, "Config_ID", SP>>, CARD_TITLE, EmptyStr, <<SP, "Partner_ID">>>>,
      <<CONFIG_ID, HERO_BANNER_URL>>,
      <<RULE_ID, CONFIG_ID, USER_SEGMENT>>,
      <<CONFIG_ID, HERO_BANNER_URL, CARD_TITLE>>,        \* both signature columns
      <<CONFIG_ID, <<SP, "Card_Title">>>>,               \* signature not trimmed
      <<CONFIG_ID, CARD_TITLE, CARD_TITLE, PROTO>>,      \* a repeated header name
      <<W("C1")>>,                                       \* a short data row
      <<<<SP, "C2", SP>>, <<"x", SP>>, W("All"), W("P1"), W("extra")>> }

\* the sample grid of the specification, section 8, item 9
SampleGrid ==
    << <<PARTNER_ID, PARTNER_NAME, W("Bank_Code"), W("Category"), STATUS>>,
       <<W("P1"), W("Acme Bank"), W("ACM"), W("Card"), <<"A", "c", "t", "i", "v", "e">>>>,
       <<EmptyStr>>,
       <<CONFIG_ID, CARD_TITLE, W("Card_Subtitle"), W("Logo_URL"), W("Badge_Text"),
         W("Bg_Color"), W("Text_Color"), W("Benefit_1"), W("Benefit_2"),
         W("Benefit_3"), W("CTA_Label_Card")>>,
       <<W("C1"), W("Acme Gold"), W("Cashback 5%"), EmptyStr, EmptyStr, EmptyStr,
         EmptyStr, W("Free shipping"), EmptyStr, EmptyStr, W("Open now")>> >>

\* a grid with two Partner tables of different columns, the second without
\* Status, and a card of the first table's partner
TwoPartnerHeadersGrid ==
    << <<PARTNER_ID, PARTNER_NAME, STATUS>>,
       <<W("P1"), W("Acme Bank"), <<"A", "c", "t", "i", "v", "e">>>>,
       <<PARTNER_ID, PARTNER_NAME>>,
       <<W("P2"), W("Beta Bank")>>,
       <<CONFIG_ID, CARD_TITLE, PARTNER_ID>>,
       <<W("C1"), W("Acme Gold"), W("P1")>> >>

Grids ==
    UNION {[1..n -> RowPool] : n \in 0..MaxRows} \cup {SampleGrid, TwoPartnerHeadersGrid}

---------------------------------------------------------------------------
(* fetchData *)

Init ==
    /\ pc = "fetch"
    /\ rows = << >>
    /\ rowIdx = 1
    /\ currentTable = NullTable
    /\ currentHeaders = << >>
    /\ partnerMaster = << >>
    /\ cardUIConfig = << >>
    /\ productDetailConfig = << >>
    /\ displayRules = << >>
    /\ data = NullData
    /\ loading = TRUE
    /\ error = Null
    /\ userSegment = ALL
    /\ selectedConfigId = Null
    /\ mobileScreen = "listing"
    /\ activeCardId = Null
    /\ dashboardRows = << >>
    /\ mobileCards = << >>
    /\ crashed = FALSE
    /\ sortChoice = {}
    /\ fetches = << >>

\* response.ok: the body is parsed into rows and the loop starts
FetchOk ==
    /\ pc = "fetch"
    /\ \E grid \in Grids : rows' = grid
    /\ pc' = "loop"
    /\ rowIdx' = 1
    /\ currentTable' = NullTable
    /\ currentHeaders' = << >>
    /\ partnerMaster' = << >>
    /\ cardUIConfig' = << >>
    /\ productDetailConfig' = << >>
    /\ displayRules' = << >>
    /\ UNCHANGED <<loadVars, userSegment, viewVars, effectVars, memoVars>>

\* Catch gone wrong: the failure ends the loading and sets no error
Catch_NoError(message) ==
    /\ pc' = "failed"
    /\ error' = error
    /\ loading' = FALSE
    /\ Render(data, userSegment)
    /\ UNCHANGED <<rows, rowIdx, currentTable, currentHeaders, partnerMaster,
                   cardUIConfig, productDetailConfig, displayRules, data,
                   userSegment, viewVars, effectVars>>

\* the catch block: setError(err.message); setLoading(false)
Catch(message) ==
    /\ pc' = "failed"
    /\ error' = message
    /\ loading' = FALSE
    /\ Render(data, userSegment)
    /\ UNCHANGED <<rows, rowIdx, currentTable, currentHeaders, partnerMaster,
                   cardUIConfig, productDetailConfig, displayRules, data,
                   userSegment, viewVars, effectVars>>

\* FetchNotOk gone wrong: the error is set and the fetch is started again
FetchNotOk_Retry ==
    /\ pc = "fetch"
    /\ error' = FETCH_FAILED_MSG
    /\ loading' = FALSE
    /\ Render(data, userSegment)
    /\ UNCHANGED <<parserVars, data, userSegment, viewVars, effectVars>>

\* !response.ok: throw new Error('Failed to fetch CSV data')
FetchNotOk ==
    /\ pc = "fetch"
    /\ Catch(FETCH_FAILED_MSG)

\* fetch itself rejects
FetchRejected ==
    /\ pc = "fetch"
    /\ Catch(NETWORK_MSG)

InLoop == pc = "loop" /\ rowIdx <= Len(rows)

\* SkipBlankRow gone wrong: the blank row is skipped, the table stays current
SkipBlankRow_KeepTable ==
    /\ InLoop
    /\ IsBlankRow(rows[rowIdx])
    /\ rowIdx' = rowIdx + 1
    /\ UNCHANGED <<pc, rows, currentTable, currentHeaders, partnerMaster,
                   cardUIConfig, productDetailConfig, displayRules, loadVars,
                   userSegment, viewVars, effectVars, memoVars>>

\* a blank row: currentTable = null; continue
SkipBlankRow ==
    /\ InLoop
    /\ IsBlankRow(rows[rowIdx])
    /\ currentTable' = NullTable
    /\ rowIdx' = rowIdx + 1
    /\ UNCHANGED <<pc, rows, currentHeaders, partnerMaster, cardUIConfig,
                   productDetailConfig, displayRules, loadVars, userSegment,
                   viewVars, effectVars, memoVars>>

\* HeaderRow gone wrong: while a table is current, a header row of another
\* table is taken as a header row of the current one
HeaderRow_KeepCurrent ==
    /\ InLoop
    /\ ~IsBlankRow(rows[rowIdx])
    /\ DetectHeader(rows[rowIdx]) # NullTable
    /\ currentTable' = IF currentTable = NullTable
                       THEN DetectHeader(rows[rowIdx]) ELSE currentTable
    /\ currentHeaders' = TrimAll(rows[rowIdx])
    /\ rowIdx' = rowIdx + 1
    /\ UNCHANGED <<pc, rows, partnerMaster, cardUIConfig, productDetailConfig,
                   displayRules, loadVars, userSegment, viewVars, effectVars, memoVars>>

\* a header row: switch the table, take its trimmed cells as headers; continue
HeaderRow ==
    /\ InLoop
    /\ ~IsBlankRow(rows[rowIdx])
    /\ DetectHeader(rows[rowIdx]) # NullTable
    /\ currentTable' = DetectHeader(rows[rowIdx])
    /\ currentHeaders' = TrimAll(rows[rowIdx])
    /\ rowIdx' = rowIdx + 1
    /\ UNCHANGED <<pc, rows, partnerMaster, cardUIConfig, productDetailConfig,
                   displayRules, loadVars, userSegment, viewVars, effectVars, memoVars>>

\* PushTo gone wrong: unshift in place of push
PushTo_Unshift(table, target, array, obj) ==
    IF table = target THEN <<obj>> \o array ELSE array

\* the switch on currentTable: the array the record is pushed to
PushTo(table, target, array, obj) ==
    IF table = target THEN Append(array, obj) ELSE array

\* a data row while a table is current: build the record and push it
DataRow ==
    /\ InLoop
    /\ ~IsBlankRow(rows[rowIdx])
    /\ DetectHeader(rows[rowIdx]) = NullTable
    /\ currentTable # NullTable
    /\ LET obj == BuildRecord(currentHeaders, rows[rowIdx])
       IN  /\ partnerMaster' =
                 PushTo(currentTable, "Partner_Master", partnerMaster, obj)
           /\ cardUIConfig' =
                 PushTo(currentTable, "Card_UI_Config", cardUIConfig, obj)
           /\ productDetailConfig' =
                 PushTo(currentTable, "Product_Detail_Config", productDetailConfig, obj)
           /\ displayRules' =
                 PushTo(currentTable, "Display_Rules", displayRules, obj)
    /\ rowIdx' = rowIdx + 1
    /\ UNCHANGED <<pc, rows, currentTable, currentHeaders, loadVars, userSegment,
                   viewVars, effectVars, memoVars>>

\* a data row while no table is current: nothing is pushed
DropRow ==
    /\ InLoop
    /\ ~IsBlankRow(rows[rowIdx])
    /\ DetectHeader(rows[rowIdx]) = NullTable
    /\ currentTable = NullTable
    /\ rowIdx' = rowIdx + 1
    /\ UNCHANGED <<pc, rows, currentTable, currentHeaders, partnerMaster,
                   cardUIConfig, productDetailConfig, displayRules, loadVars,
                   userSegment, viewVars, effectVars, memoVars>>

\* the object handed to setData
Snapshot(pm, cc, pd, dr) ==
    [partnerMaster |-> pm, cardUIConfig |-> cc,
     productDetailConfig |-> pd, displayRules |-> dr]

\* after the loop: setData({...}); setLoading(false); then the render
SetData ==
    /\ pc = "loop"
    /\ rowIdx > Len(rows)
    /\ pc' = "done"
    /\ data' = Snapshot(partnerMaster, cardUIConfig, productDetailConfig, displayRules)
    /\ loading' = FALSE
    /\ Render(data', userSegment)
    /\ UNCHANGED <<rows, rowIdx, currentTable, currentHeaders, partnerMaster,
                   cardUIConfig, productDetailConfig, displayRules, error,
                   userSegment, viewVars, effectVars>>

Next ==
    \/ FetchOk
    \/ FetchNotOk
    \/ FetchRejected
    \/ SkipBlankRow
    \/ HeaderRow
    \/ DataRow
    \/ DropRow
    \/ SetData

Spec == Init /\ [][Next]_vars

---------------------------------------------------------------------------
(* The resolution engine on drawn snapshots: the state right after setData *)
(* for a grid whose rows gave these tables, then the segment buttons.      *)

PartnerRec(id, status) ==
    (PARTNER_ID :> id) @@ (PARTNER_NAME :> W("Acme Bank")) @@ (STATUS :> status)

\* a Partner record of a table whose header row has no Status column
PartnerRecNoStatus(id) ==
    (PARTNER_ID :> id) @@ (PARTNER_NAME :> W("Acme Bank"))

CardRec(id, partner) ==
    (CONFIG_ID :> id) @@ (PARTNER_ID :> partner) @@ (CARD_TITLE :> W("Acme Gold"))

RuleRec(id, config, segment, priority) ==
    (RULE_ID :> id) @@ (CONFIG_ID :> config) @@ (USER_SEGMENT :> segment)
        @@ (PRIORITY :> priority)

Active_Mixed == <<"A", "c", "t", "i", "v", "e">>
Active_Lower == <<"a", "c", "t", "i", "v", "e">>
Inactive_Mixed == <<"I", "n", "a", "c", "t", "i", "v", "e">>
Inactive_Lower == <<"i", "n", "a", "c", "t", "i", "v", "e">>

\* the Partner tables drawn: none, both active, one of the two inactive in
\* each spelling, an empty status, a repeated Partner_ID, a missing
\* partner, and a table without a Status column
PartnerTables ==
    { << >>,
      <<PartnerRec(W("P1"), Active_Mixed), PartnerRec(W("P2"), Active_Lower)>>,
      <<PartnerRec(W("P1"), Inactive_Mixed), PartnerRec(W("P2"), ACTIVE)>>,
      <<PartnerRec(W("P1"), Active_Mixed), PartnerRec(W("P2"), INACTIVE)>>,
      <<PartnerRec(W("P1"), Inactive_Lower), PartnerRec(W("P2"), EmptyStr)>>,
      <<PartnerRec(W("P1"), Inactive_Mixed), PartnerRec(W("P1"), Active_Mixed)>>,
      <<PartnerRec(W("P2"), Active_Lower)>>,
      <<PartnerRec(W("P1"), Active_Mixed), PartnerRecNoStatus(W("P2"))>> }

\* card C comes from a CardPresentation table whose header row also has a
\* column named Status
CardPool ==
    { CardRec(W("A"), W("P1")), CardRec(W("B"), W("P1")),
      CardRec(W("C"), W("P2")) @@ (STATUS :> W("Draft")) }

RulePool ==
    { RuleRec(W("R1"), W("A"), NEW_USER, <<"5">>),
      RuleRec(W("R2"), W("A"), ALL, <<"1", "0">>),
      RuleRec(W("R3"), W("B"), ALL, <<"5">>),
      RuleRec(W("R4"), W("C"), NEW_USER, <<"1", "0">>),
      RuleRec(W("R5"), W("B"), W("all"), W("high")) }

SeqsUpTo(pool, n) == UNION {[1..k -> pool] : k \in 0..n}

\* the CardPresentation tables drawn: the cards of the pool, any number of
\* them in any order, each Config_ID once
CardTables ==
    {q \in SeqsUpTo(CardPool, Cardinality(CardPool)) :
        \A i, j \in 1..Len(q) : q[i] = q[j] => i = j}

\* the DisplayRule tables drawn: up to MaxRules rules of the pool in any
\* order, each Rule_ID once
RuleTables ==
    {q \in SeqsUpTo(RulePool, MaxRules) :
        \A i, j \in 1..Len(q) : q[i] = q[j] => i = j}

InitEngine ==
    /\ pc = "done"
    /\ rows = << >>
    /\ rowIdx = 1
    /\ currentTable = NullTable
    /\ currentHeaders = << >>
    /\ partnerMaster = << >>
    /\ cardUIConfig = << >>
    /\ productDetailConfig = << >>
    /\ displayRules = << >>
    /\ \E pm \in PartnerTables, cc \in CardTables, dr \in RuleTables :
            data = Snapshot(pm, cc, << >>, dr)
    /\ loading = FALSE
    /\ error = Null
    /\ userSegment = ALL
    /\ selectedConfigId = Null
    /\ mobileScreen = "listing"
    /\ activeCardId = Null
    /\ fetches = << >>
    /\ crashed = MobileCardsThrows(data)
    /\ dashboardRows = IF crashed THEN << >> ELSE DashboardRows(data)
    /\ IF crashed
       THEN mobileCards = << >> /\ sortChoice = {}
       ELSE \E cards \in {FilteredCards(data, userSegment)} :
                \E prios \in {Priorities(data, cards, 1)} :
                    \E order \in SortOrders(prios) :
                        /\ mobileCards = Reorder(cards, order)
                        /\ sortChoice = SortChoiceAfter(prios, order, {})

\* what the page shows: the dashboard and preview, with the segment buttons
Ready == ~loading /\ error = Null /\ ~crashed

Segments == {ALL, NEW_USER, EXISTING_USER}

\* SetUserSegment gone wrong: mobileCards sorts data.cardUIConfig itself,
\* in place, before it filters
SetUserSegment_SortInPlace(segment) ==
    /\ Ready
    /\ segment # userSegment
    /\ userSegment' = segment
    /\ \E prios \in {Priorities(data, data.cardUIConfig, 1)} :
          data' = [data EXCEPT !.cardUIConfig =
                      Reorder(data.cardUIConfig, StableOrder(prios, << >>, 1))]
    /\ Render(data', segment)
    /\ UNCHANGED <<parserVars, loading, error, viewVars, effectVars>>

\* onClick={() => setUserSegment(segment)}; a changed segment renders again
SetUserSegment(segment) ==
    /\ Ready
    /\ segment # userSegment
    /\ userSegment' = segment
    /\ Render(data, segment)
    /\ UNCHANGED <<parserVars, loadVars, viewVars, effectVars>>

NextEngine == \E segment \in Segments : SetUserSegment(segment)

SpecEngine == InitEngine /\ [][NextEngine]_vars

---------------------------------------------------------------------------
(* The grid as the specification reads it (section 4.1), stated on the     *)
(* rows themselves and not on the parser's variables.                      *)

\* every cell is empty or holds white space only (also a row with no cells)
GridBlank(row) ==
    \A k \in 1..Len(row) : \A a \in 1..Len(row[k]) : row[k][a] = SP

\* the first cell, trimmed, is key and some cell is sig
KeyAndSignature(row, key, sig) ==
    /\ Len(row) >= 1
    /\ \E k \in 1..Len(row) : row[k] = sig
    /\ Trim(row[1]) = key

\* the header rows of the four tables, Card_Title tested before Hero_Banner_URL
GridHeader(row, table) ==
    CASE table = "Partner_Master" -> KeyAndSignature(row, PARTNER_ID, PARTNER_NAME)
      [] table = "Card_UI_Config" -> KeyAndSignature(row, CONFIG_ID, CARD_TITLE)
      [] table = "Product_Detail_Config" ->
            /\ KeyAndSignature(row, CONFIG_ID, HERO_BANNER_URL)
            /\ ~KeyAndSignature(row, CONFIG_ID, CARD_TITLE)
      [] table = "Display_Rules" -> KeyAndSignature(row, RULE_ID, USER_SEGMENT)

Tables == {"Partner_Master", "Card_UI_Config", "Product_Detail_Config", "Display_Rules"}

GridIsHeader(row) == \E t \in Tables : GridHeader(row, t)

GridIsData(row) == ~GridBlank(row) /\ ~GridIsHeader(row)

\* the last blank or header row above row j, 0 when there is none
Governing(j) ==
    LET above == {h \in 1..(j - 1) : GridBlank(rows[h]) \/ GridIsHeader(rows[h])}
    IN  IF above = {} THEN 0 ELSE CHOOSE h \in above : \A g \in above : g <= h

\* g is the last blank or header row above row j, 0 when there is none
Governs(g, j) ==
    /\ g > 0 => GridBlank(rows[g]) \/ GridIsHeader(rows[g])
    /\ \A h \in (g + 1)..(j - 1) : GridIsData(rows[h])

\* row j is a data row under the header row of table, no blank row between
Attributed(j, table) ==
    /\ GridIsData(rows[j])
    /\ Governing(j) > 0
    /\ GridHeader(rows[Governing(j)], table)

\* the array fetchData fills for a table
ArrayOf(table) ==
    CASE table = "Partner_Master" -> partnerMaster
      [] table = "Card_UI_Config" -> cardUIConfig
      [] table = "Product_Detail_Config" -> productDetailConfig
      [] table = "Display_Rules" -> displayRules

\* the loop is about to handle row j
AtRow(j) == pc = "loop" /\ rowIdx = j /\ j <= Len(rows)

---------------------------------------------------------------------------
(* C1 *)

\* row j is a data row that follows header row h with only data rows between
Follows(j, h) ==
    /\ h < j
    /\ GridIsData(rows[j])
    /\ \A g \in (h + 1)..(j - 1) : GridIsData(rows[g])

RoutedToCard ==
    /\ Len(cardUIConfig') = Len(cardUIConfig) + 1
    /\ productDetailConfig' = productDetailConfig

RoutedToDetail ==
    /\ Len(productDetailConfig') = Len(productDetailConfig) + 1
    /\ cardUIConfig' = cardUIConfig

\* C1 as amended: a data row that follows (up to the next blank or header
\* row) a header row whose first cell is Config_ID and which contains
\* Card_Title goes to CardPresentation and not to ProductDetail; one that
\* follows a header row whose first cell is Config_ID and which contains
\* Hero_Banner_URL and not Card_Title goes to ProductDetail and not to
\* CardPresentation.
C1_Disambiguation ==
    [][\A j \in 1..Len(rows) : \A h \in 1..Len(rows) :
          AtRow(j) /\ Follows(j, h) =>
            /\ KeyAndSignature(rows[h], CONFIG_ID, CARD_TITLE) => RoutedToCard
            /\ (/\ KeyAndSignature(rows[h], CONFIG_ID, HERO_BANNER_URL)
                /\ ~KeyAndSignature(rows[h], CONFIG_ID, CARD_TITLE)) => RoutedToDetail]_vars

\* C1 as stated: every header row whose first cell is Config_ID and which
\* contains Hero_Banner_URL routes the rows after it to ProductDetail.
C1_AsStated ==
    [][\A j \in 1..Len(rows) : \A h \in 1..Len(rows) :
          AtRow(j) /\ Follows(j, h) =>
            /\ KeyAndSignature(rows[h], CONFIG_ID, CARD_TITLE) => RoutedToCard
            /\ KeyAndSignature(rows[h], CONFIG_ID, HERO_BANNER_URL) => RoutedToDetail]_vars

\* C1 witness: the two headers back to back, each followed by a data row
\* that was handled and landed in its own table.
C1_Witness ==
    /\ pc = "done"
    /\ Len(rows) = 4
    /\ KeyAndSignature(rows[1], CONFIG_ID, CARD_TITLE)
    /\ ~KeyAndSignature(rows[1], CONFIG_ID, HERO_BANNER_URL)
    /\ GridIsData(rows[2])
    /\ KeyAndSignature(rows[3], CONFIG_ID, HERO_BANNER_URL)
    /\ ~KeyAndSignature(rows[3], CONFIG_ID, CARD_TITLE)
    /\ GridIsData(rows[4])
    /\ Len(cardUIConfig) = 1
    /\ Len(productDetailConfig) = 1

---------------------------------------------------------------------------
(* C2 *)

HeaderRowsOf(table) == {h \in 1..Len(rows) : GridHeader(rows[h], table)}

\* table has a single header row, and the next row is blank
SingleHeaderThenBlank(table) ==
    /\ Cardinality(HeaderRowsOf(table)) = 1
    /\ \A h \in HeaderRowsOf(table) : h < Len(rows) /\ GridBlank(rows[h + 1])

\* C2: when table T has a single header row and the row right after it is
\* blank, no record is ever attributed to T, neither in the array the loop
\* fills nor in the published snapshot.
C2_BoundaryDetection ==
    \A t \in Tables :
        pc \in {"loop", "done"} /\ SingleHeaderThenBlank(t) =>
            /\ Len(ArrayOf(t)) = 0
            /\ (pc = "done" =>
                  /\ t = "Partner_Master" => Len(data.partnerMaster) = 0
                  /\ t = "Card_UI_Config" => Len(data.cardUIConfig) = 0
                  /\ t = "Product_Detail_Config" => Len(data.productDetailConfig) = 0
                  /\ t = "Display_Rules" => Len(data.displayRules) = 0)

\* C2 witness: a header, a blank row of white-space cells, then data rows,
\* all handled.
C2_Witness ==
    /\ pc = "done"
    /\ Len(rows) = 4
    /\ SingleHeaderThenBlank("Card_UI_Config")
    /\ GridHeader(rows[1], "Card_UI_Config")
    /\ Len(rows[2]) > 0
    /\ GridIsData(rows[3])
    /\ GridIsData(rows[4])

---------------------------------------------------------------------------
(* C3 *)

\* row j is a data row before any header row, or after a blank row with no
\* header row since
Orphan(j) ==
    /\ GridIsData(rows[j])
    /\ \/ \A h \in 1..(j - 1) : ~GridIsHeader(rows[h])
       \/ \E b \in 1..(j - 1) :
            /\ GridBlank(rows[b])
            /\ \A h \in (b + 1)..(j - 1) : ~GridIsHeader(rows[h])

\* C3: handling an orphan row leaves the four tables as they are.
C3_OrphanRows ==
    [][\A j \in 1..Len(rows) :
          AtRow(j) /\ Orphan(j) =>
            /\ rowIdx' = j + 1
            /\ UNCHANGED <<partnerMaster, cardUIConfig, productDetailConfig,
                           displayRules>>]_vars

\* C3 witness: a header, a blank row, then an orphan row that was handled,
\* and an orphan row at the top of another grid is covered by the same run.
C3_Witness ==
    /\ pc = "loop"
    /\ rowIdx = 4
    /\ Len(rows) >= 3
    /\ GridIsHeader(rows[1])
    /\ GridBlank(rows[2])
    /\ Orphan(3)
    /\ partnerMaster = << >> /\ cardUIConfig = << >>
    /\ productDetailConfig = << >> /\ displayRules = << >>

---------------------------------------------------------------------------
(* C4 *)

\* the header row that governs data row j, as it stands in the grid
HeaderAbove(j) == rows[Governing(j)]

\* the positions of the header row whose trimmed header is name
PositionsOf(header, name) == {k \in 1..Len(header) : Trim(header[k]) = name}

LastPositionOf(header, name) ==
    CHOOSE k \in PositionsOf(header, name) :
        \A g \in PositionsOf(header, name) : g <= k

\* the trimmed cell of the row at position k, '' past the row's end
TrimmedCell(row, k) == IF k <= Len(row) THEN Trim(row[k]) ELSE EmptyStr

\* the record the step has just appended
Appended ==
    IF Len(partnerMaster') > Len(partnerMaster)
    THEN partnerMaster'[Len(partnerMaster')]
    ELSE IF Len(cardUIConfig') > Len(cardUIConfig)
    THEN cardUIConfig'[Len(cardUIConfig')]
    ELSE IF Len(productDetailConfig') > Len(productDetailConfig)
    THEN productDetailConfig'[Len(productDetailConfig')]
    ELSE displayRules'[Len(displayRules')]

SomethingAppended ==
    Len(partnerMaster') + Len(cardUIConfig') + Len(productDetailConfig')
        + Len(displayRules')
    > Len(partnerMaster) + Len(cardUIConfig) + Len(productDetailConfig)
        + Len(displayRules)

\* C4 as amended: the record built from a data row has exactly one field
\* for each distinct non-empty trimmed header name of the active header
\* row other than __proto__; its value is the trimmed cell at the last
\* position that carries the name, '' when the row is shorter; cells past
\* the header row's length appear in no field.
C4_RecordFields ==
    [][\A j \in 1..Len(rows) :
          AtRow(j) /\ SomethingAppended =>
            /\ DOMAIN Appended =
                  {Trim(HeaderAbove(j)[k]) : k \in 1..Len(HeaderAbove(j))}
                      \ {EmptyStr, PROTO}
            /\ \A name \in DOMAIN Appended :
                  Appended[name] =
                      TrimmedCell(rows[j], LastPositionOf(HeaderAbove(j), name))]_vars

\* C4 as stated: one field for each non-empty trimmed header, holding the
\* trimmed cell at the header's own position.
C4_AsStated ==
    [][\A j \in 1..Len(rows) :
          AtRow(j) /\ SomethingAppended =>
            \A k \in 1..Len(HeaderAbove(j)) :
                Trim(HeaderAbove(j)[k]) # EmptyStr =>
                    /\ Trim(HeaderAbove(j)[k]) \in DOMAIN Appended
                    /\ Get(Appended, Trim(HeaderAbove(j)[k])) = TrimmedCell(rows[j], k)]_vars

\* C4 witness: records were built from a row shorter and from a row longer
\* than the header row, under a header row with an empty header.
C4_Witness ==
    /\ pc = "done"
    /\ Len(rows) = 3
    /\ GridHeader(rows[1], "Card_UI_Config")
    /\ \E k \in 1..Len(rows[1]) : Trim(rows[1][k]) = EmptyStr
    /\ GridIsData(rows[2]) /\ Len(rows[2]) < Len(rows[1])
    /\ GridIsData(rows[3]) /\ Len(rows[3]) > Len(rows[1])
    /\ Len(cardUIConfig) = 2
    /\ Get(cardUIConfig[1], PARTNER_ID) = EmptyStr
    /\ Get(cardUIConfig[2], PARTNER_ID) = W("P1")

---------------------------------------------------------------------------
(* C5 *)

\* the step appends record to the array of table and leaves the other
\* three arrays alone
AppendsOnlyTo(table, record) ==
    /\ partnerMaster' = IF table = "Partner_Master"
                        THEN Append(partnerMaster, record) ELSE partnerMaster
    /\ cardUIConfig' = IF table = "Card_UI_Config"
                       THEN Append(cardUIConfig, record) ELSE cardUIConfig
    /\ productDetailConfig' = IF table = "Product_Detail_Config"
                              THEN Append(productDetailConfig, record)
                              ELSE productDetailConfig
    /\ displayRules' = IF table = "Display_Rules"
                       THEN Append(displayRules, record) ELSE displayRules

\* C5: the loop starts with four empty tables and handles the rows one by
\* one from the top; a data row that stands under a header row of table T
\* (no blank or header row between) appends exactly one record, built from
\* that header row, at the end of T and leaves the other tables alone; a
\* header row, a blank row or any other row leaves all four tables alone;
\* the tables are published as the loop left them.
C5_SinglePass ==
    [][/\ pc = "fetch" /\ pc' = "loop" =>
            /\ rowIdx' = 1
            /\ partnerMaster' = << >> /\ cardUIConfig' = << >>
            /\ productDetailConfig' = << >> /\ displayRules' = << >>
       /\ \A j \in {k \in 1..Len(rows) : AtRow(k)} : \A g \in {Governing(j)} :
            Governs(g, j) =>
              /\ rowIdx' = j + 1
              /\ rows' = rows
              /\ IF GridIsData(rows[j]) /\ g > 0 /\ GridIsHeader(rows[g])
                 THEN \A t \in Tables :
                        GridHeader(rows[g], t) =>
                            AppendsOnlyTo(t, BuildRecord(TrimAll(rows[g]), rows[j]))
                 ELSE UNCHANGED <<partnerMaster, cardUIConfig, productDetailConfig,
                                  displayRules>>
       /\ pc = "loop" /\ pc' = "done" =>
            /\ rowIdx = Len(rows) + 1
            /\ data' = [partnerMaster |-> partnerMaster,
                        cardUIConfig |-> cardUIConfig,
                        productDetailConfig |-> productDetailConfig,
                        displayRules |-> displayRules]]_vars

\* C5 witness: two records of one table from two rows, in row order, with
\* a header row of another table handled after them.
C5_Witness ==
    /\ pc = "done"
    /\ Len(rows) = 4
    /\ Attributed(2, "Card_UI_Config")
    /\ Attributed(3, "Card_UI_Config")
    /\ GridHeader(rows[4], "Display_Rules")
    /\ Len(cardUIConfig) = 2
    /\ cardUIConfig[1] # cardUIConfig[2]
    /\ Get(cardUIConfig[1], CONFIG_ID) = W("C1")
    /\ displayRules = << >>

---------------------------------------------------------------------------
(* C6 *)

\* C6: parsing a grid and evaluating the two queries never raises.  The
\* code raises a TypeError in mobileCards when a Partner record has no
\* Status field (the Partner header row has no Status column).
C6_NeverRaises == crashed = FALSE

---------------------------------------------------------------------------
(* C7 *)

SampleDone == pc = "done" /\ rows = SampleGrid

\* C7 as amended: for the sample grid the administrative view is one row
\* with Config_ID C1, Partner_Name Unknown, Status INACTIVE, Priority 0 and
\* User_Segment All, and eligibleCards(s) is empty for every segment s:
\* the sample's CardPresentation header row has no Partner_ID column, so
\* the card joins no partner.
C7_SampleEndToEnd ==
    SampleDone =>
        /\ ~crashed
        /\ Len(dashboardRows) = 1
        /\ Get(dashboardRows[1], CONFIG_ID) = W("C1")
        /\ Get(dashboardRows[1], PARTNER_NAME) = W("Unknown")
        /\ Get(dashboardRows[1], STATUS) = <<"I", "N", "A", "C", "T", "I", "V", "E">>
        /\ Get(dashboardRows[1], PRIORITY) = <<"0">>
        /\ Get(dashboardRows[1], USER_SEGMENT) = W("All")
        /\ mobileCards = << >>
        /\ \A s \in Segments : MobileCardsIs(<< >>, data, s)

\* C7 as stated: Partner_Name Acme Bank, Status Active, and
\* eligibleCards(s) = [C1] for every segment s.
C7_AsStated ==
    SampleDone =>
        /\ ~crashed
        /\ Len(dashboardRows) = 1
        /\ Get(dashboardRows[1], CONFIG_ID) = W("C1")
        /\ Get(dashboardRows[1], PARTNER_NAME) = W("Acme Bank")
        /\ Get(dashboardRows[1], STATUS) = <<"A", "c", "t", "i", "v", "e">>
        /\ Get(dashboardRows[1], PRIORITY) = <<"0">>
        /\ Get(dashboardRows[1], USER_SEGMENT) = W("All")
        /\ \A s \in Segments : MobileCardsIs(<<data.cardUIConfig[1]>>, data, s)

\* C7 witness: the sample grid parsed and published, one partner, one card.
C7_Witness ==
    /\ SampleDone
    /\ Len(data.partnerMaster) = 1
    /\ Get(data.partnerMaster[1], STATUS) = <<"A", "c", "t", "i", "v", "e">>
    /\ Len(data.cardUIConfig) = 1
    /\ Get(data.cardUIConfig[1], CONFIG_ID) = W("C1")
    /\ Len(data.displayRules) = 0

---------------------------------------------------------------------------
(* C8 *)

\* the text equals "active" when case is disregarded
IsActiveText(s) ==
    /\ Len(s) = 6
    /\ s[1] \in {"a", "A"} /\ s[2] \in {"c", "C"} /\ s[3] \in {"t", "T"}
    /\ s[4] \in {"i", "I"} /\ s[5] \in {"v", "V"} /\ s[6] \in {"e", "E"}

\* some Partner record with the card's Partner_ID has an active status
HasActivePartner(c) ==
    \E k \in 1..Len(data.partnerMaster) :
        /\ Get(data.partnerMaster[k], PARTNER_ID) = Get(c, PARTNER_ID)
        /\ IsActiveText(Get(data.partnerMaster[k], STATUS))

InSeq(x, seq) == \E k \in 1..Len(seq) : seq[k] = x

\* C8: whatever the segment, every card of eligibleCards has the
\* Partner_ID of some Partner record whose status is "active" in some
\* spelling of case; a card whose partner is inactive in any spelling, has
\* any other status, or does not exist, is not in it.
C8_StatusGate ==
    /\ \A k \in 1..Len(mobileCards) : HasActivePartner(mobileCards[k])
    /\ \A k \in 1..Len(data.cardUIConfig) :
          ~HasActivePartner(data.cardUIConfig[k]) =>
              ~InSeq(data.cardUIConfig[k], mobileCards)

\* C8 witness: under a segment other than All, a card of an "Inactive"
\* partner with a matching rule is left out, and a card of an "ACTIVE"
\* partner is returned.
C8_Witness ==
    /\ Ready
    /\ userSegment = NEW_USER
    /\ Len(data.partnerMaster) = 2
    /\ Get(data.partnerMaster[1], STATUS) = <<"I", "n", "a", "c", "t", "i", "v", "e">>
    /\ Get(data.partnerMaster[2], STATUS) = <<"A", "C", "T", "I", "V", "E">>
    /\ Len(data.cardUIConfig) = 2
    /\ Get(data.cardUIConfig[1], PARTNER_ID) = Get(data.partnerMaster[1], PARTNER_ID)
    /\ Get(data.cardUIConfig[2], PARTNER_ID) = Get(data.partnerMaster[2], PARTNER_ID)
    /\ Len(data.displayRules) = 1
    /\ Get(data.displayRules[1], CONFIG_ID) = Get(data.cardUIConfig[1], CONFIG_ID)
    /\ Get(data.displayRules[1], USER_SEGMENT) = NEW_USER
    /\ mobileCards = <<data.cardUIConfig[2]>>

---------------------------------------------------------------------------
(* C9 *)

\* the positions of the DisplayRule records with the card's Config_ID
RulesOfCard(c) ==
    {k \in 1..Len(data.displayRules) :
        Get(data.displayRules[k], CONFIG_ID) = Get(c, CONFIG_ID)}

\* C9: a card that passes the status gate is in eligibleCards(s) exactly
\* when it has no DisplayRule, or one of its DisplayRules has User_Segment
\* "All" or s, compared as they stand.  The code returns no card at all
\* when mobileCards raises on a Partner record without Status (C6), also
\* for a card of an active partner that has no rule.
C9_SegmentGate ==
    pc = "done" =>
        \A k \in 1..Len(data.cardUIConfig) :
            HasActivePartner(data.cardUIConfig[k]) =>
                (InSeq(data.cardUIConfig[k], mobileCards) <=>
                    \/ RulesOfCard(data.cardUIConfig[k]) = {}
                    \/ \E r \in RulesOfCard(data.cardUIConfig[k]) :
                          \/ Get(data.displayRules[r], USER_SEGMENT) = W("All")
                          \/ Get(data.displayRules[r], USER_SEGMENT) = userSegment)

---------------------------------------------------------------------------
(* C10 *)

\* the text is a decimal numeral
IsNumeral(s) == Len(s) >= 1 /\ \A k \in 1..Len(s) : IsDigit(s[k])

\* the integer a numeral denotes
RECURSIVE NumeralValue(_)
NumeralValue(s) ==
    IF Len(s) = 1
    THEN DigitVal(s[1])
    ELSE 10 * NumeralValue(SubSeq(s, 1, Len(s) - 1)) + DigitVal(s[Len(s)])

\* the first DisplayRule of the card, in the table's order
FirstRuleOf(c) ==
    data.displayRules[CHOOSE r \in RulesOfCard(c) : \A q \in RulesOfCard(c) : r <= q]

\* the card has no rule, or the Priority of its first rule is a numeral
HasIntegerPriority(c) ==
    RulesOfCard(c) = {} \/ IsNumeral(Get(FirstRuleOf(c), PRIORITY))

\* the priority of the card: that of its first rule, 0 without a rule
PriorityOf(c) ==
    IF RulesOfCard(c) = {} THEN 0 ELSE NumeralValue(Get(FirstRuleOf(c), PRIORITY))

\* the place of the card in the CardPresentation table
PlaceOf(c) ==
    CHOOSE k \in 1..Len(data.cardUIConfig) : data.cardUIConfig[k] = c

---------------------------------------------------------------------------
(* C11 *)

\* the priority of the card as the specification reads it: that of its
\* first rule when its Priority text is a numeral, 0 otherwise
PriorityOrZero(c) ==
    IF HasIntegerPriority(c) THEN PriorityOf(c) ELSE 0

\* C11: in eligibleCards a card whose first rule has an absent, empty or
\* non-numeric Priority is ordered as a card of priority 0: the cards are
\* listed by descending priority with such cards counted 0, and cards of
\* equal priority in the order of the CardPresentation table.  The code
\* compares such a card as NaN, equal to every card, which leaves the
\* order of the whole list to the sort implementation.
C11_UnparseableAsZero ==
    \A k, l \in 1..Len(mobileCards) :
        k < l =>
            /\ PriorityOrZero(mobileCards[k]) >= PriorityOrZero(mobileCards[l])
            /\ PriorityOrZero(mobileCards[k]) = PriorityOrZero(mobileCards[l]) =>
                  PlaceOf(mobileCards[k]) < PlaceOf(mobileCards[l])

---------------------------------------------------------------------------
(* C12 *)

\* administrativeView() on the published snapshot
AdministrativeView == DashboardRows(data)

\* the positions of the Partner records with the card's Partner_ID
PartnersOfCard(c) ==
    {k \in 1..Len(data.partnerMaster) :
        Get(data.partnerMaster[k], PARTNER_ID) = Get(c, PARTNER_ID)}

InactiveText == <<"I", "N", "A", "C", "T", "I", "V", "E">>

\* C12: the row of a card with no Partner record of its Partner_ID has
\* Partner_Name "Unknown" and Status "INACTIVE"; the row of a card with no
\* DisplayRule of its Config_ID has Priority "0" and User_Segment "All".
\* The page shows these rows whenever it renders.
C12_JoinDefaults ==
    pc = "done" =>
        /\ ~crashed => dashboardRows = AdministrativeView
        /\ \A k \in 1..Len(data.cardUIConfig) :
              /\ PartnersOfCard(data.cardUIConfig[k]) = {} =>
                    /\ Get(AdministrativeView[k], PARTNER_NAME) = W("Unknown")
                    /\ Get(AdministrativeView[k], STATUS) = InactiveText
              /\ RulesOfCard(data.cardUIConfig[k]) = {} =>
                    /\ Get(AdministrativeView[k], PRIORITY) = <<"0">>
                    /\ Get(AdministrativeView[k], USER_SEGMENT) = W("All")

\* C12 witness: a card without partner and without rule, in a snapshot
\* that has partners and rules, shown with the four defaults.
C12_Witness ==
    /\ Ready
    /\ Len(data.partnerMaster) > 0
    /\ Len(data.displayRules) > 0
    /\ Len(data.cardUIConfig) > 0
    /\ PartnersOfCard(data.cardUIConfig[1]) = {}
    /\ RulesOfCard(data.cardUIConfig[1]) = {}
    /\ Get(dashboardRows[1], PARTNER_NAME) = W("Unknown")
    /\ Get(dashboardRows[1], STATUS) = InactiveText
    /\ Get(dashboardRows[1], PRIORITY) = <<"0">>
    /\ Get(dashboardRows[1], USER_SEGMENT) = W("All")

---------------------------------------------------------------------------
(* C13 *)

\* the first Partner record of the card, in the table's order
FirstPartnerOf(c) ==
    data.partnerMaster[CHOOSE p \in PartnersOfCard(c) : \A q \in PartnersOfCard(c) : p <= q]

\* the record has the field and its text is not empty
HasText(rec, field) == Get(rec, field) # Undefined /\ Get(rec, field) # EmptyStr

\* the field as stored when it has text, the sentinel otherwise
StoredOr(rec, field, sentinel) ==
    IF HasText(rec, field) THEN Get(rec, field) ELSE sentinel

\* C13 as amended: the row of a card that has Partner records carries the
\* Partner_Name and Status of the first of them in the table's order, and
\* the row of a card that has DisplayRules the Priority and User_Segment
\* of the first of them, each as stored when it is a non-empty text; a
\* value that is empty or missing in that first record is replaced by its
\* sentinel ("Unknown", "INACTIVE", "0", "All"), as it is when no record
\* matches.  Later records of the same ID are never read.
C13_FirstMatch ==
    pc = "done" =>
        /\ ~crashed => dashboardRows = AdministrativeView
        /\ \A k \in 1..Len(data.cardUIConfig) :
              /\ PartnersOfCard(data.cardUIConfig[k]) # {} =>
                    /\ Get(AdministrativeView[k], PARTNER_NAME) =
                          StoredOr(FirstPartnerOf(data.cardUIConfig[k]),
                                   PARTNER_NAME, W("Unknown"))
                    /\ Get(AdministrativeView[k], STATUS) =
                          StoredOr(FirstPartnerOf(data.cardUIConfig[k]),
                                   STATUS, InactiveText)
              /\ RulesOfCard(data.cardUIConfig[k]) # {} =>
                    /\ Get(AdministrativeView[k], PRIORITY) =
                          StoredOr(FirstRuleOf(data.cardUIConfig[k]), PRIORITY, <<"0">>)
                    /\ Get(AdministrativeView[k], USER_SEGMENT) =
                          StoredOr(FirstRuleOf(data.cardUIConfig[k]), USER_SEGMENT, W("All"))

\* C13 as stated: the four values of a row the page shows are exactly
\* those stored in the first matching record, and a sentinel appears only
\* when no record matches.
C13_AsStated ==
    Ready =>
        \A k \in 1..Len(data.cardUIConfig) :
            /\ PartnersOfCard(data.cardUIConfig[k]) # {} =>
                  /\ Get(dashboardRows[k], PARTNER_NAME) =
                        Get(FirstPartnerOf(data.cardUIConfig[k]), PARTNER_NAME)
                  /\ Get(dashboardRows[k], STATUS) =
                        Get(FirstPartnerOf(data.cardUIConfig[k]), STATUS)
            /\ RulesOfCard(data.cardUIConfig[k]) # {} =>
                  /\ Get(dashboardRows[k], PRIORITY) =
                        Get(FirstRuleOf(data.cardUIConfig[k]), PRIORITY)
                  /\ Get(dashboardRows[k], USER_SEGMENT) =
                        Get(FirstRuleOf(data.cardUIConfig[k]), USER_SEGMENT)

\* C13 witness: a card with two Partner records of different Status and
\* two DisplayRules of different Priority, shown with those of the first.
C13_Witness ==
    /\ Ready
    /\ Len(data.cardUIConfig) > 0
    /\ PartnersOfCard(data.cardUIConfig[1]) = {1, 2}
    /\ Get(data.partnerMaster[1], STATUS) # Get(data.partnerMaster[2], STATUS)
    /\ Get(dashboardRows[1], STATUS) = Get(data.partnerMaster[1], STATUS)
    /\ RulesOfCard(data.cardUIConfig[1]) = {1, 2}
    /\ Get(data.displayRules[1], PRIORITY) # Get(data.displayRules[2], PRIORITY)
    /\ Get(dashboardRows[1], PRIORITY) = Get(data.displayRules[1], PRIORITY)
    /\ Get(dashboardRows[1], USER_SEGMENT) = Get(data.displayRules[1], USER_SEGMENT)

---------------------------------------------------------------------------
(* C14 *)

\* the names under which a row holds the joined values
JoinedNames == {PARTNER_NAME, STATUS, PRIORITY, USER_SEGMENT}

\* C14 as amended: administrativeView() has exactly one row per
\* CardPresentation record, in the table's order, whatever the Partner and
\* DisplayRule tables hold; the i-th row has every field of the i-th card,
\* with the card's value except under the names Partner_Name, Status,
\* Priority and User_Segment, where the joined value stands.
C14_NeverFilters ==
    pc = "done" =>
        /\ ~crashed => dashboardRows = AdministrativeView
        /\ Len(AdministrativeView) = Len(data.cardUIConfig)
        /\ \A k \in 1..Len(data.cardUIConfig) :
              \A f \in DOMAIN data.cardUIConfig[k] :
                  /\ f \in DOMAIN AdministrativeView[k]
                  /\ f \notin JoinedNames =>
                        AdministrativeView[k][f] = data.cardUIConfig[k][f]

\* C14 as stated: one row per card, in order, and the i-th row the page
\* shows carries every field of the i-th card.
C14_AsStated ==
    Ready =>
        /\ Len(dashboardRows) = Len(data.cardUIConfig)
        /\ \A k \in 1..Len(data.cardUIConfig) :
              \A f \in DOMAIN data.cardUIConfig[k] :
                  /\ f \in DOMAIN dashboardRows[k]
                  /\ dashboardRows[k][f] = data.cardUIConfig[k][f]

\* C14 witness: three cards, one of them without partner, over a Partner
\* table with a repeated Partner_ID; three rows in the cards' order.
C14_Witness ==
    /\ Ready
    /\ Len(data.cardUIConfig) = 3
    /\ Len(data.partnerMaster) = 2
    /\ Get(data.partnerMaster[1], PARTNER_ID) = Get(data.partnerMaster[2], PARTNER_ID)
    /\ \E k \in 1..3 : PartnersOfCard(data.cardUIConfig[k]) = {}
    /\ Len(dashboardRows) = 3
    /\ \A k \in 1..3 :
          Get(dashboardRows[k], CONFIG_ID) = Get(data.cardUIConfig[k], CONFIG_ID)

---------------------------------------------------------------------------
(* C15 *)

\* the orders in which eligibleCards(s) may list its cards when the engine
\* has made these choices
EligibleOrders(s, choice) ==
    UNION {UNION {SortOrdersOfEngine(prios, choice) :
                     prios \in {Priorities(data, cards, 1)}} :
              cards \in {FilteredCards(data, s)}}

\* evaluating the two queries on the snapshot returns view and cards
SameAgain(view, cards, s, choice) ==
    /\ view = DashboardRows(data)
    /\ \A filtered \in {FilteredCards(data, s)} :
          \A order \in EligibleOrders(s, choice) : cards = Reorder(filtered, order)

\* C15: evaluating a query leaves the four tables of the snapshot as they
\* are, the CardPresentation table in its order; evaluating the queries
\* again, in any state the page is shown in, returns what the page holds;
\* and what eligibleCards(s) returns for a segment s stays the same while
\* other queries are evaluated.
C15_Idempotent ==
    [][pc = "done" /\ ~crashed =>
          /\ data' = data
          /\ SameAgain(dashboardRows, mobileCards, userSegment, sortChoice)
          /\ sortChoice' # sortChoice =>
                \A s \in Segments : \A orders \in {EligibleOrders(s, sortChoice)} :
                    Cardinality(orders) = 1 => EligibleOrders(s, sortChoice') = orders]_vars

\* C15 witness: after a change of segment the cards are listed in another
\* order than that of the CardPresentation table, which is as it was drawn
\* (its cards still in an order the priority sort would not give).
C15_Witness ==
    /\ Ready
    /\ userSegment = W("New User")
    /\ Len(data.cardUIConfig) = 3
    /\ Len(mobileCards) = 3
    /\ mobileCards[1] = data.cardUIConfig[3]
    /\ mobileCards[2] = data.cardUIConfig[1]
    /\ mobileCards[3] = data.cardUIConfig[2]

---------------------------------------------------------------------------
(* The effect run more than once: every run calls fetchData, and the calls *)
(* settle in any order.  A call parses its grid in one step here, as the   *)
(* loop has no await in it.                                                *)

MaxFetches == 2     \* calls of fetchData

\* the pass of the loop over a whole grid, from row k on
RECURSIVE ParseRows(_, _, _, _, _)
ParseRows(grid, k, table, headers, snap) ==
    IF k > Len(grid) THEN snap
    ELSE IF IsBlankRow(grid[k])
    THEN ParseRows(grid, k + 1, NullTable, headers, snap)
    ELSE IF DetectHeader(grid[k]) # NullTable
    THEN ParseRows(grid, k + 1, DetectHeader(grid[k]), TrimAll(grid[k]), snap)
    ELSE IF table = NullTable
    THEN ParseRows(grid, k + 1, table, headers, snap)
    ELSE LET obj == BuildRecord(headers, grid[k])
         IN  ParseRows(grid, k + 1, table, headers,
                 Snapshot(PushTo(table, "Partner_Master", snap.partnerMaster, obj),
                          PushTo(table, "Card_UI_Config", snap.cardUIConfig, obj),
                          PushTo(table, "Product_Detail_Config",
                                 snap.productDetailConfig, obj),
                          PushTo(table, "Display_Rules", snap.displayRules, obj)))

\* what a call of fetchData hands to setData for a grid
Parsed(grid) ==
    ParseRows(grid, 1, NullTable, << >>, Snapshot(<< >>, << >>, << >>, << >>))

\* the sheet as it is published at different times: the sample, the sample
\* before its card table was added, the grid of two partner tables, and the
\* empty sheet
RefetchGrids == {SampleGrid, SubSeq(SampleGrid, 1, 2), TwoPartnerHeadersGrid, << >>}

\* a call of fetchData that has just started
NewCall == [stage |-> "fetch", message |-> Null, snapshot |-> NullData]

InitRefetch ==
    /\ pc = "fetch"
    /\ rows = << >>
    /\ rowIdx = 1
    /\ currentTable = NullTable
    /\ currentHeaders = << >>
    /\ partnerMaster = << >>
    /\ cardUIConfig = << >>
    /\ productDetailConfig = << >>
    /\ displayRules = << >>
    /\ data = NullData
    /\ loading = TRUE
    /\ error = Null
    /\ userSegment = ALL
    /\ selectedConfigId = Null
    /\ mobileScreen = "listing"
    /\ activeCardId = Null
    /\ dashboardRows = << >>
    /\ mobileCards = << >>
    /\ crashed = FALSE
    /\ sortChoice = {}
    /\ fetches = <<NewCall>>

\* the effect runs again (the component is mounted again, as React's strict
\* mode does): fetchData() is called while earlier calls are in flight
RunEffect ==
    /\ Len(fetches) < MaxFetches
    /\ fetches' = Append(fetches, NewCall)
    /\ UNCHANGED <<parserVars, loadVars, userSegment, viewVars, memoVars>>

\* call i: await fetch(CSV_URL) gives a response that is ok
ResponseOk(i) ==
    /\ fetches[i].stage = "fetch"
    /\ fetches' = [fetches EXCEPT ![i].stage = "text"]
    /\ UNCHANGED <<parserVars, loadVars, userSegment, viewVars, memoVars>>

\* call i: the catch block, setError(err.message); setLoading(false)
CatchOf(i, message) ==
    /\ fetches' = [fetches EXCEPT ![i].stage = "settled", ![i].message = message]
    /\ error' = message
    /\ loading' = FALSE
    /\ Render(data, userSegment)
    /\ UNCHANGED <<parserVars, data, userSegment, viewVars>>

\* call i: the response is not ok
ResponseNotOk(i) ==
    /\ fetches[i].stage = "fetch"
    /\ CatchOf(i, FETCH_FAILED_MSG)

\* call i: fetch, or reading the body, rejects
Rejected(i) ==
    /\ fetches[i].stage \in {"fetch", "text"}
    /\ CatchOf(i, NETWORK_MSG)

\* call i: await response.text() gives the sheet; it is parsed, then
\* setData({...}); setLoading(false); then the render
Body(i, grid) ==
    /\ fetches[i].stage = "text"
    /\ \E snap \in {Parsed(grid)} :
          /\ fetches' = [fetches EXCEPT ![i].stage = "settled",
                                        ![i].snapshot = snap]
          /\ data' = snap
          /\ Render(snap, userSegment)
    /\ loading' = FALSE
    /\ UNCHANGED <<parserVars, error, userSegment, viewVars>>

NextRefetch ==
    \/ RunEffect
    \/ \E i \in 1..Len(fetches) : ResponseOk(i)
    \/ \E i \in 1..Len(fetches) : ResponseNotOk(i)
    \/ \E i \in 1..Len(fetches) : Rejected(i)
    \/ \E i \in 1..Len(fetches) : \E grid \in RefetchGrids : Body(i, grid)
    \/ \E segment \in Segments : SetUserSegment(segment)

SpecRefetch == InitRefetch /\ [][NextRefetch]_vars

---------------------------------------------------------------------------
(* C16 *)

AllSettled ==
    /\ Len(fetches) > 1
    /\ \A i \in 1..Len(fetches) : fetches[i].stage = "settled"

NewestFetch == fetches[Len(fetches)]

\* C16: once every fetch that was started has settled, the snapshot and the
\* load status shown are those of the fetch that started last: a fetch that
\* started earlier and completed later has overwritten nothing.
C16_NewestFetchWins ==
    AllSettled =>
        /\ ~loading
        /\ error = NewestFetch.message
        /\ NewestFetch.message = Null => data = NewestFetch.snapshot

---------------------------------------------------------------------------
(* C17 *)

\* what App returns: if (loading) the spinner, if (error) the message,
\* otherwise the dashboard with the preview
Shown ==
    IF loading THEN "spinner"
    ELSE IF ~Falsy(error) THEN "error"
    ELSE "dashboard"

TableNames == {"partnerMaster", "cardUIConfig", "productDetailConfig", "displayRules"}

\* C17: the status is loading before the fetch has settled; an error that
\* is set carries a message and is what is shown; and wherever loading is
\* false and error is null, as wherever the dashboard and preview are
\* rendered, data is a snapshot, not null, of all four tables.
C17_TriState ==
    /\ pc \in {"fetch", "loop"} => loading /\ error = Null /\ data = NullData
    /\ error # Null => ~Falsy(error) /\ (~loading => Shown = "error")
    /\ ~loading /\ error = Null =>
          /\ data # NullData
          /\ DOMAIN data = TableNames
          /\ \A t \in TableNames : DOMAIN data[t] = 1..Len(data[t])
    /\ Shown = "dashboard" => data # NullData

\* C17 witness: the fetch has settled with data, and the dashboard is shown
\* from a snapshot with a partner and a card.
C17_Witness ==
    /\ pc = "done"
    /\ Shown = "dashboard"
    /\ Len(data.partnerMaster) > 0
    /\ Len(data.cardUIConfig) > 0

---------------------------------------------------------------------------
(* C18 *)

\* C18: a response that is not ok sets the error to the message of the
\* Error thrown for it, a rejected fetch to the message of the rejection;
\* wherever an error is set it is what is shown, loading is over, data is
\* still null, and fetchData has ended for good: no fetch follows.
C18_FetchFailure ==
    /\ [](error # Null =>
            /\ pc = "failed"
            /\ Shown = "error"
            /\ data = NullData)
    /\ [][/\ FetchNotOk => error' = FETCH_FAILED_MSG
          /\ FetchRejected => error' = NETWORK_MSG
          /\ pc = "failed" => pc' = "failed"]_vars

\* C18 witness: the response was not ok and its message is shown.
C18_Witness ==
    /\ pc = "failed"
    /\ error = FETCH_FAILED_MSG
    /\ Shown = "error"
    /\ data = NullData

---------------------------------------------------------------------------
(* The view: the preview buttons of the dashboard and the three simulated  *)
(* screens, over a published snapshot.                                     *)

DetailRec(id, hero) == (CONFIG_ID :> id) @@ (HERO_BANNER_URL :> hero)

\* a card whose row has an empty Config_ID cell
CardNoId == CardRec(EmptyStr, W("P1"))

\* the CardPresentation tables drawn for the view
ViewCardTables ==
    { <<CardRec(W("A"), W("P1")), CardRec(W("B"), W("P2"))>>,
      <<CardRec(W("B"), W("P2")), CardNoId, CardRec(W("A"), W("P1"))>> }

\* the ProductDetail tables drawn: none, one record of card A, card B and
\* two records of card A, two records of the empty Config_ID around one of A
DetailTables ==
    { << >>,
      <<DetailRec(W("A"), W("a1.png"))>>,
      <<DetailRec(W("B"), W("b1.png")), DetailRec(W("A"), W("a1.png")),
        DetailRec(W("A"), W("a2.png"))>>,
      <<DetailRec(EmptyStr, W("e1.png")), DetailRec(W("A"), W("a2.png")),
        DetailRec(EmptyStr, W("e2.png"))>> }

\* the DisplayRule tables drawn for the view
ViewRuleTables ==
    { << >>,
      <<RuleRec(W("R1"), W("A"), NEW_USER, <<"5">>),
        RuleRec(W("R3"), W("B"), ALL, <<"1", "0">>)>> }

InitView ==
    /\ pc = "done"
    /\ rows = << >>
    /\ rowIdx = 1
    /\ currentTable = NullTable
    /\ currentHeaders = << >>
    /\ partnerMaster = << >>
    /\ cardUIConfig = << >>
    /\ productDetailConfig = << >>
    /\ displayRules = << >>
    /\ \E cc \in ViewCardTables, pd \in DetailTables, dr \in ViewRuleTables :
            data = Snapshot(<<PartnerRec(W("P1"), Active_Mixed),
                              PartnerRec(W("P2"), Active_Lower)>>, cc, pd, dr)
    /\ loading = FALSE
    /\ error = Null
    /\ userSegment = ALL
    /\ selectedConfigId = Null
    /\ mobileScreen = "listing"
    /\ activeCardId = Null
    /\ fetches = << >>
    /\ crashed = FALSE
    /\ dashboardRows = DashboardRows(data)
    /\ \E cards \in {FilteredCards(data, userSegment)} :
          \E prios \in {Priorities(data, cards, 1)} :
              \E order \in SortOrders(prios) :
                  /\ mobileCards = Reorder(cards, order)
                  /\ sortChoice = SortChoiceAfter(prios, order, {})

\* HandlePreviewClick gone wrong: the previewed card is moved to the top of
\* the listing
HandlePreviewClick_Promote(configId) ==
    /\ Ready
    /\ \E k \in 1..Len(dashboardRows) : Get(dashboardRows[k], CONFIG_ID) = configId
    /\ selectedConfigId' = configId
    /\ mobileScreen' = "listing"
    /\ activeCardId' = Null
    /\ mobileCards' =
          SelectSeq(mobileCards, LAMBDA c : Get(c, CONFIG_ID) = configId)
              \o SelectSeq(mobileCards, LAMBDA c : Get(c, CONFIG_ID) # configId)
    /\ UNCHANGED <<parserVars, loadVars, userSegment, dashboardRows, crashed,
                   sortChoice, effectVars>>

\* the Preview button of a dashboard row: handlePreviewClick(row.Config_ID);
\* data and userSegment are as they were, so neither memo is computed again
HandlePreviewClick(configId) ==
    /\ Ready
    /\ \E k \in 1..Len(dashboardRows) : Get(dashboardRows[k], CONFIG_ID) = configId
    /\ selectedConfigId' = configId
    /\ mobileScreen' = "listing"
    /\ activeCardId' = Null
    /\ UNCHANGED <<parserVars, loadVars, userSegment, memoVars, effectVars>>

\* a card of the listing screen: handleCardClick(card.Config_ID)
HandleCardClick(configId) ==
    /\ Ready
    /\ mobileScreen = "listing"
    /\ \E k \in 1..Len(mobileCards) : Get(mobileCards[k], CONFIG_ID) = configId
    /\ activeCardId' = configId
    /\ mobileScreen' = "detail"
    /\ UNCHANGED <<parserVars, loadVars, userSegment, selectedConfigId, memoVars,
                   effectVars>>

\* data.cardUIConfig.find(c => c.Config_ID === activeCardId)
FindCard(d, id) ==
    FirstIndex({k \in 1..Len(d.cardUIConfig) :
                  Get(d.cardUIConfig[k], CONFIG_ID) = id})

\* FindDetail gone wrong: the last record of the Config_ID
FindDetail_Last(d, id) ==
    FirstIndex_Last({k \in 1..Len(d.productDetailConfig) :
                       Get(d.productDetailConfig[k], CONFIG_ID) = id})

\* data.productDetailConfig.find(d => d.Config_ID === activeCardId)
FindDetail(d, id) ==
    FirstIndex({k \in 1..Len(d.productDetailConfig) :
                  Get(d.productDetailConfig[k], CONFIG_ID) = id})

\* what a screen renders: nothing, the text "Config not found", or the
\* screen from the records at these positions of the two tables
Rendered(shows, card, detail) == [shows |-> shows, card |-> card, detail |-> detail]

\* SCREEN 2: mobileScreen === 'detail' && activeCardId && ...;
\* if (!card || !detail) return <div>Config not found</div>
DetailScreen ==
    IF mobileScreen # "detail" \/ Falsy(activeCardId)
    THEN Rendered("nothing", 0, 0)
    ELSE IF FindCard(data, activeCardId) = 0 \/ FindDetail(data, activeCardId) = 0
    THEN Rendered("not found", 0, 0)
    ELSE Rendered("detail", FindCard(data, activeCardId),
                  FindDetail(data, activeCardId))

\* SCREEN 3: mobileScreen === 'steps' && activeCardId && ...;
\* if (!card || !detail) return null
StepsScreen ==
    IF mobileScreen # "steps" \/ Falsy(activeCardId)
    THEN Rendered("nothing", 0, 0)
    ELSE IF FindCard(data, activeCardId) = 0 \/ FindDetail(data, activeCardId) = 0
    THEN Rendered("nothing", 0, 0)
    ELSE Rendered("steps", FindCard(data, activeCardId),
                  FindDetail(data, activeCardId))

\* the back arrow of the detail screen: setMobileScreen('listing')
BackToListing ==
    /\ Ready
    /\ DetailScreen.shows = "detail"
    /\ mobileScreen' = "listing"
    /\ UNCHANGED <<parserVars, loadVars, userSegment, selectedConfigId,
                   activeCardId, memoVars, effectVars>>

\* the button at the bottom of the detail screen: setMobileScreen('steps')
Continue ==
    /\ Ready
    /\ DetailScreen.shows = "detail"
    /\ mobileScreen' = "steps"
    /\ UNCHANGED <<parserVars, loadVars, userSegment, selectedConfigId,
                   activeCardId, memoVars, effectVars>>

\* the back arrow of the steps screen: setMobileScreen('detail')
BackToDetail ==
    /\ Ready
    /\ StepsScreen.shows = "steps"
    /\ mobileScreen' = "detail"
    /\ UNCHANGED <<parserVars, loadVars, userSegment, selectedConfigId,
                   activeCardId, memoVars, effectVars>>

NextView ==
    \/ \E segment \in Segments : SetUserSegment(segment)
    \/ \E k \in 1..Len(dashboardRows) :
          HandlePreviewClick(Get(dashboardRows[k], CONFIG_ID))
    \/ \E k \in 1..Len(mobileCards) :
          HandleCardClick(Get(mobileCards[k], CONFIG_ID))
    \/ BackToListing
    \/ Continue
    \/ BackToDetail

SpecView == InitView /\ [][NextView]_vars

---------------------------------------------------------------------------
(* C19 *)

\* C19: in every state the page is shown in, whatever row is selected,
\* whatever screen is shown and whatever card is active, the rows and the
\* cards held are administrativeView() and eligibleCards(segment) of the
\* snapshot and the segment alone; and a step that changes the selected
\* row, the screen or the active card leaves the snapshot, the segment and
\* both results as they were, and raises nothing.
C19_ViewStateIsolated ==
    /\ [](Ready => SameAgain(dashboardRows, mobileCards, userSegment, sortChoice))
    /\ [][viewVars' # viewVars =>
             /\ data' = data
             /\ userSegment' = userSegment
             /\ dashboardRows' = dashboardRows
             /\ mobileCards' = mobileCards
             /\ crashed' = FALSE]_vars

\* C19 witness: after a preview click on card B, a click on card A and
\* continue, the steps screen of A is shown over a listing of several cards.
C19_Witness ==
    /\ Ready
    /\ selectedConfigId = W("B")
    /\ activeCardId = W("A")
    /\ mobileScreen = "steps"
    /\ Len(mobileCards) > 1
    /\ Get(mobileCards[1], CONFIG_ID) # W("B")

---------------------------------------------------------------------------
(* C20 *)

\* the positions of the ProductDetail records of the active card
DetailsOfActive ==
    {k \in 1..Len(data.productDetailConfig) :
        Get(data.productDetailConfig[k], CONFIG_ID) = activeCardId}

\* the screen is rendered from the first ProductDetail record of the active
\* card, and from a card of the table
FromFirstDetail(screen) ==
    /\ screen.card \in 1..Len(data.cardUIConfig)
    /\ screen.detail \in DetailsOfActive
    /\ \A k \in DetailsOfActive : screen.detail <= k

\* C20: where the active card has a Config_ID that is not empty, the detail
\* screen shows "Config not found" when no ProductDetail record has that
\* Config_ID, and otherwise it, and the steps screen after it, are rendered
\* from the first such record in the order of the table; where the active
\* card's Config_ID is empty neither screen renders anything, whatever the
\* records are; no screen is rendered from a record that is missing.
C20_DetailLookup ==
    Ready /\ mobileScreen \in {"detail", "steps"} =>
        /\ Falsy(activeCardId) =>
              DetailScreen.shows = "nothing" /\ StepsScreen.shows = "nothing"
        /\ ~Falsy(activeCardId) /\ mobileScreen = "detail" =>
              /\ DetailsOfActive = {} => DetailScreen.shows = "not found"
              /\ DetailsOfActive # {} =>
                    DetailScreen.shows = "detail" /\ FromFirstDetail(DetailScreen)
        /\ ~Falsy(activeCardId) /\ mobileScreen = "steps" =>
              StepsScreen.shows = "steps" /\ FromFirstDetail(StepsScreen)

\* C20 as stated: on the detail screen, whatever the Config_ID of the
\* active card, no record gives "not found" and several give the first.
C20_AsStated ==
    Ready /\ mobileScreen = "detail" =>
        /\ DetailsOfActive = {} => DetailScreen.shows = "not found"
        /\ DetailsOfActive # {} =>
              DetailScreen.shows = "detail" /\ FromFirstDetail(DetailScreen)

\* C20 witness: the steps screen of card A, which has two ProductDetail
\* records, the first of them second in the table.
C20_Witness ==
    /\ Ready
    /\ mobileScreen = "steps"
    /\ activeCardId = W("A")
    /\ DetailsOfActive = {2, 3}
    /\ StepsScreen.detail = 2

---------------------------------------------------------------------------
(* C21 *)

\* the first cell, trimmed, is Config_ID and the row has a cell Card_Title
\* and a cell Hero_Banner_URL
BothSignatures(row) ==
    /\ KeyAndSignature(row, CONFIG_ID, CARD_TITLE)
    /\ KeyAndSignature(row, CONFIG_ID, HERO_BANNER_URL)

\* C21: a row with Config_ID first and both signature columns makes
\* CardPresentation the current table, whatever table was current, and
\* pushes nothing; the data rows that follow it (up to the next blank or
\* header row) go to CardPresentation and not to ProductDetail; and any
\* header row of table T makes T the current table, whatever table was
\* current before it.
C21_CardTitleFirst ==
    [][\A j \in {k \in 1..Len(rows) : AtRow(k)} :
          /\ BothSignatures(rows[j]) =>
                /\ currentTable' = "Card_UI_Config"
                /\ currentHeaders' = TrimAll(rows[j])
                /\ UNCHANGED <<partnerMaster, cardUIConfig, productDetailConfig,
                               displayRules>>
          /\ \A t \in Tables : GridHeader(rows[j], t) => currentTable' = t
          /\ \A h \in 1..(j - 1) :
                BothSignatures(rows[h]) /\ Follows(j, h) => RoutedToCard]_vars

\* C21 witness: a Hero_Banner_URL header and its data row, then a header
\* with both signature columns, met while ProductDetail was current, and
\* its data row: one record in each of the two tables.
C21_Witness ==
    /\ pc = "done"
    /\ Len(rows) = 4
    /\ GridHeader(rows[1], "Product_Detail_Config")
    /\ GridIsData(rows[2])
    /\ BothSignatures(rows[3])
    /\ GridIsData(rows[4])
    /\ Len(data.productDetailConfig) = 1
    /\ Len(data.cardUIConfig) = 1

---------------------------------------------------------------------------
(* The loop over grids of header rows written with and without white       *)
(* space around the key and the signature cells.                           *)

MaxHeaderRows == 2  \* rows of a grid of header rows

HeaderRowPool ==
    { <<CONFIG_ID, CARD_TITLE>>,
      <<<<SP, "Config_ID">>, CARD_TITLE>>,               \* key cell padded
      <<CONFIG_ID, <<SP, "Card_Title">>>>,               \* signature cell padded
      <<CONFIG_ID, HERO_BANNER_URL>>,
      <<CONFIG_ID, <<"Hero_Banner_URL", SP>>>>,
      <<CONFIG_ID, HERO_BANNER_URL, <<SP, "Card_Title">>>>,
      <<PARTNER_ID, PARTNER_NAME, STATUS>>,
      <<<<"Partner_ID", SP>>, <<"Partner_Name", SP>>, STATUS>>,
      <<RULE_ID, CONFIG_ID, USER_SEGMENT>>,
      <<RULE_ID, CONFIG_ID, <<SP, "User_Segment", SP>>>>,
      <<W("C1"), W("x"), W("All")>>,                     \* a data row
      <<EmptyStr, <<SP>>>> }                             \* a blank row

HeaderGrids == UNION {[1..n -> HeaderRowPool] : n \in 1..MaxHeaderRows}

\* the state as the loop starts on a grid of HeaderGrids
InitHeader ==
    /\ pc = "loop"
    /\ rows \in HeaderGrids
    /\ rowIdx = 1
    /\ currentTable = NullTable
    /\ currentHeaders = << >>
    /\ partnerMaster = << >>
    /\ cardUIConfig = << >>
    /\ productDetailConfig = << >>
    /\ displayRules = << >>
    /\ data = NullData
    /\ loading = TRUE
    /\ error = Null
    /\ userSegment = ALL
    /\ selectedConfigId = Null
    /\ mobileScreen = "listing"
    /\ activeCardId = Null
    /\ dashboardRows = << >>
    /\ mobileCards = << >>
    /\ crashed = FALSE
    /\ sortChoice = {}
    /\ fetches = << >>

NextHeader ==
    \/ SkipBlankRow
    \/ HeaderRow
    \/ DataRow
    \/ DropRow
    \/ SetData

SpecHeader == InitHeader /\ [][NextHeader]_vars

---------------------------------------------------------------------------
(* C22 *)

\* the key column and the signature column of a table
KeyOf(table) ==
    CASE table = "Partner_Master" -> PARTNER_ID
      [] table = "Card_UI_Config" -> CONFIG_ID
      [] table = "Product_Detail_Config" -> CONFIG_ID
      [] table = "Display_Rules" -> RULE_ID

SignatureOf(table) ==
    CASE table = "Partner_Master" -> PARTNER_NAME
      [] table = "Card_UI_Config" -> CARD_TITLE
      [] table = "Product_Detail_Config" -> HERO_BANNER_URL
      [] table = "Display_Rules" -> USER_SEGMENT

\* the first cell, trimmed, is the key of table and some cell, trimmed, is
\* its signature
TrimmedHeader(row, table) ==
    /\ Len(row) >= 1
    /\ Trim(row[1]) = KeyOf(table)
    /\ \E k \in 1..Len(row) : Trim(row[k]) = SignatureOf(table)

\* the rows have the same first cell after trimming and the same other
\* cells as they stand
SameForDetection(r1, r2) ==
    /\ Len(r1) = Len(r2)
    /\ Len(r1) >= 1 => Trim(r1[1]) = Trim(r2[1])
    /\ \A k \in 2..Len(r1) : r1[k] = r2[k]

\* the step sets the current table and the headers from row j and pushes
\* no record
RecognisedAs(j, table) ==
    /\ currentTable' = table
    /\ currentHeaders' = TrimAll(rows[j])
    /\ UNCHANGED <<partnerMaster, cardUIConfig, productDetailConfig, displayRules>>

\* C22: a row whose first cell, trimmed, is the key of table T and one of
\* whose cells is, as it stands, the signature of T (for ProductDetail:
\* and none is Card_Title) is recognised as the header of T: it sets the
\* current table and pushes no record; and two rows with the same first
\* cell after trimming and the same other cells as they stand are
\* classified alike.
C22_HeaderDetection ==
    /\ [][\A j \in {k \in 1..Len(rows) : AtRow(k)} : \A t \in Tables :
             GridHeader(rows[j], t) => RecognisedAs(j, t)]_vars
    /\ [](\A i, j \in 1..Len(rows) :
             SameForDetection(rows[i], rows[j]) =>
                 DetectHeader(rows[i]) = DetectHeader(rows[j]))

\* C22 as stated: the signature cell too is compared after trimming, and
\* rows that are equal cell by cell after trimming are classified alike.
C22_AsStated ==
    /\ [][\A j \in {k \in 1..Len(rows) : AtRow(k)} : \A t \in Tables :
             TrimmedHeader(rows[j], t) => RecognisedAs(j, t)]_vars
    /\ [](\A i, j \in 1..Len(rows) :
             TrimAll(rows[i]) = TrimAll(rows[j]) =>
                 DetectHeader(rows[i]) = DetectHeader(rows[j]))

\* C22 witness: two CardPresentation header rows that differ in the white
\* space of the first cell only, both handled as header rows.
C22_Witness ==
    /\ pc = "done"
    /\ Len(rows) = 2
    /\ rows[1] # rows[2]
    /\ SameForDetection(rows[1], rows[2])
    /\ GridHeader(rows[1], "Card_UI_Config")
    /\ currentTable = "Card_UI_Config"
    /\ currentHeaders = <<CONFIG_ID, CARD_TITLE>>
    /\ Len(data.cardUIConfig) = 0

---------------------------------------------------------------------------
(* C23 *)

\* the Status in the administrativeView() row of the card
StatusInView(view, c) == Get(view[PlaceOf(c)], STATUS)

\* C23: every card of eligibleCards has a Partner record of its Partner_ID
\* whose status is active in some spelling of case, and its row in
\* administrativeView() shows an active Status exactly when the first
\* Partner record of that Partner_ID is such a record, as it is whenever
\* the Partner_ID occurs once in the Partner table.
C23_StatusAgreement ==
    \A view \in {AdministrativeView} : \A k \in 1..Len(mobileCards) :
        /\ HasActivePartner(mobileCards[k])
        /\ IsActiveText(StatusInView(view, mobileCards[k]))
              <=> IsActiveText(Get(FirstPartnerOf(mobileCards[k]), STATUS))
        /\ Cardinality(PartnersOfCard(mobileCards[k])) = 1 =>
              IsActiveText(StatusInView(view, mobileCards[k]))

\* C23 as stated: the row of every card of eligibleCards shows an active
\* Status.
C23_AsStated ==
    \A view \in {AdministrativeView} : \A k \in 1..Len(mobileCards) :
        IsActiveText(StatusInView(view, mobileCards[k]))

\* C23 witness: under the New User segment a card is returned whose
\* Partner_ID has two Partner records, the first inactive and the second
\* active; its row shows the first one's status.
C23_Witness ==
    /\ Ready
    /\ userSegment = NEW_USER
    /\ Len(mobileCards) >= 1
    /\ PartnersOfCard(mobileCards[1]) = {1, 2}
    /\ ~IsActiveText(Get(data.partnerMaster[1], STATUS))
    /\ IsActiveText(Get(data.partnerMaster[2], STATUS))
    /\ StatusInView(dashboardRows, mobileCards[1]) = Get(data.partnerMaster[1], STATUS)

---------------------------------------------------------------------------
(* C24 *)

\* C24: a card whose administrativeView() row has User_Segment "All" and
\* a Status that is active in some spelling of case is in eligibleCards(s),
\* whatever the segment s.  The code returns no card at all when
\* mobileCards raises on a Partner record without Status (C6), and it
\* leaves out a card whose first rule has an empty User_Segment, shown as
\* "All" in the row, when no rule of the card matches s.
C24_WildcardAgreement ==
    pc = "done" =>
        \A view \in {AdministrativeView} : \A k \in 1..Len(data.cardUIConfig) :
            /\ Get(view[k], USER_SEGMENT) = W("All")
            /\ IsActiveText(Get(view[k], STATUS))
            => InSeq(data.cardUIConfig[k], mobileCards)

---------------------------------------------------------------------------
(* C25 *)

\* how many times the record stands in the sequence
TimesIn(x, seq) == Cardinality({i \in 1..Len(seq) : seq[i] = x})

\* the card passes the status gate and the segment gate for segment s
PassesBothGates(c, s) ==
    /\ HasActivePartner(c)
    /\ \/ RulesOfCard(c) = {}
       \/ \E r \in RulesOfCard(c) :
            \/ Get(data.displayRules[r], USER_SEGMENT) = W("All")
            \/ Get(data.displayRules[r], USER_SEGMENT) = s

\* C25: eligibleCards(s) holds every card that passes both gates as many
\* times as the CardPresentation table does and no other record, and the
\* cards of eligibleCards("All") are all in eligibleCards(s).  The code
\* returns no card at all when mobileCards raises on a Partner record
\* without Status (C6).
C25_GatedPermutation ==
    pc = "done" =>
        /\ \A k \in 1..Len(mobileCards) : InSeq(mobileCards[k], data.cardUIConfig)
        /\ \A k \in 1..Len(data.cardUIConfig) :
              TimesIn(data.cardUIConfig[k], mobileCards) =
                  IF PassesBothGates(data.cardUIConfig[k], userSegment)
                  THEN TimesIn(data.cardUIConfig[k], data.cardUIConfig)
                  ELSE 0
        /\ ~MobileCardsThrows(data) =>
              \A forAll \in {FilteredCards(data, W("All"))} : \A s \in Segments :
                  \A forS \in {FilteredCards(data, s)} :
                      \A k \in 1..Len(forAll) : InSeq(forAll[k], forS)

====
